---- MODULE Spec2Model ----
(***************************************************************************)
(* Model of the accessibility-audit runner: the CSV/filename utilities and *)
(* the report assembler of wave-test.ts, the in-page result enhancer       *)
(* (wave-test.ts and analyzer.js carry the same code) and the batch        *)
(* orchestrator of analyzer.js.                                            *)
(*                                                                         *)
(* Strings that the code inspects character by character (CSV fields,      *)
(* URLs, filenames) are sequences of one-character strings (UTF-16 code    *)
(* units); strings that the code only copies are TLA+ strings.             *)
(***************************************************************************)
EXTENDS Integers, Sequences, FiniteSets, TLC

VARIABLES
    row,        \* csv: one row of fields handed to row.map(escapeCSV)
    escaped,    \* csv: the escaped fields
    line,       \* csv: the escaped fields joined with ','
    escDone,    \* csv: the row has been written
    fnUrl,      \* filename: the url argument
    fnExt,      \* filename: the extension argument
    fnOut,      \* filename: the returned filename (<<>> before the call)
    fnDone,     \* filename: generateFilename has returned
    raw,        \* page: what wave.fn.run() resolved to
    enhanced,   \* page: what enhanceResultsWithDOMInfo returned
    lookups,    \* page: the getElementInfo calls made, in call order
    csvRows,    \* report: the csvRows array of runAccessibilityTest
    stage,      \* page/report: "raw", "enhanced" or "reported" ("idle": not run)
    config,     \* batch: the config object of analyzeBatch and the number of urls
    cur,        \* batch: i + 1 of the for loop of analyzeBatch
    attempt,    \* batch: the attempt counter of _processUrlWithRetry
    bpc,        \* batch: where analyzeBatch stands
    results,    \* batch: the results array
    saved,      \* batch: the urls whose individual report file was written
    tries,      \* batch (history): per url, the analyzeUrl calls made
    fails,      \* batch (history): per url, the attempts that threw
    lastErr,    \* batch (history): per url, the message of the latest thrown error
    prev,       \* batch (history): what analyzeBatch awaited last
    thrownFrom, \* batch: the function an exception left analyzeBatch from
    summary,    \* batch: the batchSummary object of analyzeBatch
    mode,       \* process: the entry point that runs
    browser,    \* process: "none" (not launched), "open" or "closed"
    exitCode,   \* process: the exit code, -1 while the process runs
    env,        \* run-test: process.env (DOMAIN as DOMAIN_STR, TEST_URLS, LOGIN_USERNAME,
                \* LOGIN_PASSWORD)
    urls,       \* run-test: the urls array parsed from TEST_URLS
    rpc,        \* run-test: where the module and runTests stand
    ri,         \* run-test: i + 1 of the for loop of runTests
    resultsDir, \* run-test: the results directory exists
    files,      \* run-test: the files of the results directory, by name
    trace,      \* run-test (history): what the run did, in order
    pollConfig, \* poll: which checkWaveAvailability runs, its maxRetries and retryDelay
    attempts,   \* poll: the attempts counter
    ppc,        \* poll: "scheduled" (a check is due), "running" (run() is in flight),
                \* "resolved" or "rejected"
    timer,      \* poll: the delay of the pending setTimeout (0: the first, direct call)
    reschedules,\* poll (history): the setTimeout(checkWaveAvailability, ...) calls made
    timersUsed, \* poll (history): the delays passed to setTimeout
    lastCheck,  \* poll (history): what the latest check called, and how it went
    everInit,   \* poll (history): wave.fn.initialize() has been called
    everRun,    \* poll (history): wave.fn.run() has been called
    everPresent,\* poll (history): a check has found window.wave.fn
    outcome,    \* poll: how the promise was settled ("pending" before)
    settles     \* poll (history): the resolve(...) and reject(...) calls made

csvVars == <<row, escaped, line, escDone>>
fnVars == <<fnUrl, fnExt, fnOut, fnDone>>
enhVars == <<raw, enhanced, lookups, csvRows, stage>>
batchVars == <<config, cur, attempt, bpc, results, saved, tries, fails, lastErr, prev, thrownFrom,
              summary>>
procVars == <<mode, browser, exitCode>>
runVars == <<env, urls, rpc, ri, resultsDir, files, trace>>
pollVars == <<pollConfig, attempts, ppc, timer, reschedules, timersUsed, lastCheck, everInit,
             everRun, everPresent, outcome, settles>>
vars == <<csvVars, fnVars, enhVars, batchVars, procVars, runVars, pollVars>>

NoResults == [categories |-> <<>>]
NoSummary == [computed |-> FALSE]
CsvIdle == row = <<>> /\ escaped = <<>> /\ line = <<>> /\ escDone = FALSE
FnIdle == fnUrl = <<>> /\ fnExt = <<>> /\ fnOut = <<>> /\ fnDone = FALSE
EnhIdle ==
    /\ raw = NoResults
    /\ enhanced = NoResults
    /\ lookups = <<>>
    /\ csvRows = <<>>
    /\ stage = "idle"
BatchIdle ==
    /\ config = [maxRetries |-> 0, delay |-> 0, saveIndividualReports |-> FALSE, urls |-> 0]
    /\ cur = 0
    /\ attempt = 0
    /\ bpc = "idle"
    /\ results = <<>>
    /\ saved = {}
    /\ tries = <<>>
    /\ fails = <<>>
    /\ lastErr = <<>>
    /\ prev = "none"
    /\ thrownFrom = "none"
    /\ summary = NoSummary
ProcIdle == mode = "none" /\ browser = "none" /\ exitCode = -1
NoEnv == [DOMAIN_STR |-> <<>>, TEST_URLS |-> <<>>, LOGIN_USERNAME |-> <<>>, LOGIN_PASSWORD |-> <<>>]
NoFiles == [name \in {} |-> [url |-> <<>>]]
RunIdle ==
    /\ env = NoEnv
    /\ urls = <<>>
    /\ rpc = "idle"
    /\ ri = 0
    /\ resultsDir = FALSE
    /\ files = NoFiles
    /\ trace = <<>>
Checked(found, initialize, run) == [found |-> found, initialize |-> initialize, run |-> run]
NoCalls == Checked("no check yet", "not called", "not called")
NoPoll == [variant |-> "none", maxRetries |-> 0, retryDelay |-> 0]
PollIdle ==
    /\ pollConfig = NoPoll
    /\ attempts = 0
    /\ ppc = "idle"
    /\ timer = 0
    /\ reschedules = 0
    /\ timersUsed = {}
    /\ lastCheck = NoCalls
    /\ everInit = FALSE
    /\ everRun = FALSE
    /\ everPresent = FALSE
    /\ outcome = "pending"
    /\ settles = 0

(***************************************************************************)
(* Characters                                                              *)
(***************************************************************************)
DQ == "\""
COMMA == ","
NL == "\n"

Null == <<"<null>">>
Undefined == <<"<undefined>">>

Includes(s, c) == \E i \in 1..Len(s) : s[i] = c

Max(a, b) == IF a >= b THEN a ELSE b
Min(a, b) == IF a <= b THEN a ELSE b

\* String.prototype.substring(a, b): both ends clamped to [0, length], swapped
\* when a > b; indices are 0-based, the end is exclusive.
Substring(s, a, b) ==
    LET ca == Min(Max(a, 0), Len(s))
        cb == Min(Max(b, 0), Len(s))
    IN  SubSeq(s, Min(ca, cb) + 1, Max(ca, cb))

StartsWith(s, p) == Len(s) >= Len(p) /\ SubSeq(s, 1, Len(p)) = p

(***************************************************************************)
(* escapeCSV (wave-test.ts)                                                *)
(***************************************************************************)
\* variant of ReplaceQuotes that leaves the quotes single
ReplaceQuotes_Single(s) == s

\* stringField.replace(/"/g, '""')
RECURSIVE ReplaceQuotes(_)
ReplaceQuotes(s) ==
    IF s = <<>> THEN <<>>
    ELSE (IF Head(s) = DQ THEN <<DQ, DQ>> ELSE <<Head(s)>>) \o ReplaceQuotes(Tail(s))

\* variant of escapeCSV that does not look for a newline
escapeCSV_NoNewline(field) ==
    IF field = Null \/ field = Undefined THEN <<DQ, DQ>>
    ELSE IF Includes(field, DQ) \/ Includes(field, COMMA)
         THEN <<DQ>> \o ReplaceQuotes(field) \o <<DQ>>
         ELSE field

escapeCSV(field) ==
    IF field = Null \/ field = Undefined THEN <<DQ, DQ>>
    ELSE IF Includes(field, DQ) \/ Includes(field, COMMA) \/ Includes(field, NL)
         THEN <<DQ>> \o ReplaceQuotes(field) \o <<DQ>>
         ELSE field

\* Array.prototype.join(sep) on an array of strings
RECURSIVE Join(_, _)
Join(parts, sep) ==
    IF parts = <<>> THEN <<>>
    ELSE IF Len(parts) = 1 THEN parts[1]
    ELSE parts[1] \o sep \o Join(Tail(parts), sep)

\* row.map(escapeCSV).join(',')
CsvLine(r) == Join([i \in 1..Len(r) |-> escapeCSV(r[i])], <<COMMA>>)

(***************************************************************************)
(* generateFilename (wave-test.ts)                                         *)
(***************************************************************************)
FilenameBudget == 200

Lower == {"a","b","c","d","e","f","g","h","i","j","k","l","m",
          "n","o","p","q","r","s","t","u","v","w","x","y","z"}
Upper == {"A","B","C","D","E","F","G","H","I","J","K","L","M",
          "N","O","P","Q","R","S","T","U","V","W","X","Y","Z"}
Digit == {"0","1","2","3","4","5","6","7","8","9"}
IsAlnum(c) == c \in Lower \cup Upper \cup Digit

HttpPrefix == <<"h","t","t","p",":","/","/">>
HttpsPrefix == <<"h","t","t","p","s",":","/","/">>
FilePrefix == <<"a","c","c","e","s","s","i","b","i","l","i","t","y","-",
                "r","e","s","u","l","t","s","-">>

\* url.replace(/^https?:\/\//, '')
StripProtocol(s) ==
    IF StartsWith(s, HttpsPrefix) THEN SubSeq(s, Len(HttpsPrefix) + 1, Len(s))
    ELSE IF StartsWith(s, HttpPrefix) THEN SubSeq(s, Len(HttpPrefix) + 1, Len(s))
    ELSE s

\* filename.replace(/\/$/, '')
StripTrailingSlash(s) ==
    IF Len(s) > 0 /\ s[Len(s)] = "/" THEN SubSeq(s, 1, Len(s) - 1) ELSE s

\* filename.replace(/[^a-zA-Z0-9]/g, '-')
Sanitize(s) == [i \in 1..Len(s) |-> IF IsAlnum(s[i]) THEN s[i] ELSE "-"]

\* variant of TruncateBase that never cuts
TruncateBase_Off(s, extension) == s

TruncateBase(s, extension) ==
    LET maxBaseLength == FilenameBudget - Len(extension) - 1
    IN  IF Len(s) > maxBaseLength THEN Substring(s, 0, maxBaseLength) ELSE s

generateFilename(url, extension) ==
    FilePrefix
      \o TruncateBase(Sanitize(StripTrailingSlash(StripProtocol(url))), extension)
      \o <<".">> \o extension

(***************************************************************************)
(* Inputs                                                                  *)
(***************************************************************************)
MaxFieldLen == 3
Alphabet == {"a", COMMA, DQ, NL}

RECURSIVE SeqsUpTo(_, _)
SeqsUpTo(S, n) ==
    IF n = 0 THEN {<<>>}
    ELSE LET shorter == SeqsUpTo(S, n - 1)
         IN  shorter \cup {Append(s, c) : s \in {t \in shorter : Len(t) = n - 1}, c \in S}

FieldsUpTo(n) == SeqsUpTo(Alphabet, n) \cup {Null, Undefined}
\* a row of the report has nine fields; rows of one and of two fields cover
\* every field next to a separator and next to any other field
RowsOver(fields) == {<<f>> : f \in fields} \cup {<<f, g>> : f \in fields, g \in fields}

MaxUrlBody == 240
ExtCsv == <<"c","s","v">>
ExtJson == <<"j","s","o","n">>
ExtErrorJson == <<"e","r","r","o","r",".","j","s","o","n">>
Extensions == {ExtCsv, ExtJson, ExtErrorJson}
Protocols == {<<>>, HttpPrefix, HttpsPrefix, <<"f","t","p",":","/","/">>}
BodyPatterns == {<<"e","x",".","c","o","m","/","A","9","_">>, <<"/","a">>}
Trailers == {<<>>, <<"/">>, <<"/","/">>}
Repeat(pat, n) == [i \in 1..n |-> pat[((i - 1) % Len(pat)) + 1]]
UrlsUpTo(maxBody) ==
    {p \o Repeat(b, n) \o t :
        p \in Protocols, b \in BodyPatterns, n \in 0..maxBody, t \in Trailers}

(***************************************************************************)
(* CSV writer: csvRows.map(row => row.map(escapeCSV).join(','))            *)
(***************************************************************************)
InitCsv ==
    /\ row \in RowsOver(FieldsUpTo(MaxFieldLen))
    /\ escaped = <<>>
    /\ line = <<>>
    /\ escDone = FALSE
    /\ FnIdle
    /\ EnhIdle
    /\ BatchIdle
    /\ ProcIdle
    /\ RunIdle
    /\ PollIdle

WriteRow ==
    /\ ~escDone
    /\ row # <<>>
    /\ escaped' = [i \in 1..Len(row) |-> escapeCSV(row[i])]
    /\ line' = CsvLine(row)
    /\ escDone' = TRUE
    /\ UNCHANGED <<row, fnVars, enhVars, batchVars, procVars, runVars, pollVars>>

NextCsv == WriteRow
SpecCsv == InitCsv /\ [][NextCsv]_vars

(***************************************************************************)
(* Filename derivation                                                     *)
(***************************************************************************)
InitFn ==
    /\ fnUrl \in UrlsUpTo(MaxUrlBody)
    /\ fnExt \in Extensions
    /\ fnOut = <<>>
    /\ fnDone = FALSE
    /\ CsvIdle
    /\ EnhIdle
    /\ BatchIdle
    /\ ProcIdle
    /\ RunIdle
    /\ PollIdle

GenerateFilename ==
    /\ ~fnDone
    /\ fnExt # <<>>
    /\ fnOut' = generateFilename(fnUrl, fnExt)
    /\ fnDone' = TRUE
    /\ UNCHANGED <<fnUrl, fnExt, csvVars, enhVars, batchVars, procVars, runVars, pollVars>>

NextFn == GenerateFilename
SpecFn == InitFn /\ [][NextFn]_vars

(***************************************************************************)
(* Properties of the CSV utilities and of the filename derivation          *)
(***************************************************************************)
NeedsQuoting(f) == \E i \in 1..Len(f) : f[i] \in {DQ, COMMA, NL}
QuotesBefore(f, i) == Cardinality({j \in 1..(i - 1) : f[j] = DQ})

\* e is f between two double quotes, each double quote of f written twice
IsQuotedForm(f, e) ==
    /\ Len(e) = Len(f) + QuotesBefore(f, Len(f) + 1) + 2
    /\ e[1] = DQ
    /\ e[Len(e)] = DQ
    /\ \A i \in 1..Len(f) :
          LET k == 1 + i + QuotesBefore(f, i)
          IN  e[k] = f[i] /\ (f[i] = DQ => e[k + 1] = DQ)

\* C7: escapeCSV returns the field wrapped in double quotes with its quotes
\* doubled exactly when the field holds a double quote, a comma or a newline,
\* the field itself otherwise, and "" (two double quotes) for null/undefined.
C7_EscapeCSV ==
    escDone =>
        \A i \in 1..Len(row) :
            IF row[i] \in {Null, Undefined} THEN escaped[i] = <<DQ, DQ>>
            ELSE IF NeedsQuoting(row[i]) THEN IsQuotedForm(row[i], escaped[i])
            ELSE escaped[i] = row[i]

C7_Witness ==
    /\ escDone
    /\ row = << <<DQ, NL, "a">>, Null >>
    /\ escaped = << <<DQ, DQ, DQ, NL, "a", DQ>>, <<DQ, DQ>> >>

\* A reader of one CSV record with the standard quoting rules (RFC 4180): a
\* field that starts with a double quote runs to the closing quote, "" inside
\* it is one quote; an unquoted comma ends a field, an unquoted newline ends
\* the record.
RecordBreak == <<"<record-break>">>
RECURSIVE ReadCsv(_, _, _, _, _)
ReadCsv(s, i, inQuotes, field, acc) ==
    IF i > Len(s) THEN Append(acc, field)
    ELSE IF inQuotes
         THEN IF s[i] = DQ
              THEN IF i < Len(s) /\ s[i + 1] = DQ
                   THEN ReadCsv(s, i + 2, TRUE, Append(field, DQ), acc)
                   ELSE ReadCsv(s, i + 1, FALSE, field, acc)
              ELSE ReadCsv(s, i + 1, TRUE, Append(field, s[i]), acc)
         ELSE IF s[i] = COMMA THEN ReadCsv(s, i + 1, FALSE, <<>>, Append(acc, field))
              ELSE IF s[i] = NL THEN Append(Append(acc, field), RecordBreak)
              ELSE IF s[i] = DQ /\ field = <<>> THEN ReadCsv(s, i + 1, TRUE, field, acc)
              ELSE ReadCsv(s, i + 1, FALSE, Append(field, s[i]), acc)
ReadCsvLine(s) == ReadCsv(s, 1, FALSE, <<>>, <<>>)

IsStringRow(r) == \A i \in 1..Len(r) : r[i] \notin {Null, Undefined}

\* C8: the written line read back with the standard CSV quoting rules gives
\* the original fields, and a field without comma, quote and newline is
\* written unchanged.
C8_RoundTrip ==
    (escDone /\ IsStringRow(row)) =>
        /\ ReadCsvLine(line) = row
        /\ \A i \in 1..Len(row) : ~NeedsQuoting(row[i]) => escaped[i] = row[i]

C8_Witness ==
    /\ escDone
    /\ row = << <<"a", DQ, COMMA>>, <<NL>> >>
    /\ line = <<DQ, "a", DQ, DQ, COMMA, DQ, COMMA, DQ, NL, DQ>>

MaxFilenameLen == 255

\* C9: generateFilename returns the prefix, the sanitized and truncated base,
\* a dot and the extension; the base is the url without a leading http(s)://
\* and one trailing slash, every non-alphanumeric character a dash, cut to
\* 200 - len(ext) - 1 characters; the filename is shorter than 255 characters.
C9_Filename ==
    fnDone =>
        LET start == IF StartsWith(fnUrl, HttpsPrefix) THEN Len(HttpsPrefix)
                     ELSE IF StartsWith(fnUrl, HttpPrefix) THEN Len(HttpPrefix)
                     ELSE 0
            rest == Len(fnUrl) - start
            cut == IF rest > 0 /\ fnUrl[Len(fnUrl)] = "/" THEN 1 ELSE 0
            baseLen == Min(rest - cut, FilenameBudget - Len(fnExt) - 1)
            p == Len(FilePrefix)
        IN  /\ Len(fnOut) = p + baseLen + 1 + Len(fnExt)
            /\ SubSeq(fnOut, 1, p) = FilePrefix
            /\ \A i \in 1..baseLen :
                  fnOut[p + i] = IF IsAlnum(fnUrl[start + i]) THEN fnUrl[start + i] ELSE "-"
            /\ fnOut[p + baseLen + 1] = "."
            /\ SubSeq(fnOut, p + baseLen + 2, Len(fnOut)) = fnExt
            /\ Len(fnOut) < MaxFilenameLen

C9_Witness ==
    /\ fnDone
    /\ StartsWith(fnUrl, HttpsPrefix)
    /\ Len(fnUrl) > MaxFilenameLen - 10
    /\ fnExt = ExtErrorJson
    /\ Len(fnOut) = Len(FilePrefix) + FilenameBudget
    /\ fnOut[Len(FilePrefix) + 3] = "-"

(***************************************************************************)
(* The analysed page and the raw analyzer output                           *)
(***************************************************************************)
XpElem == "/html/body/img[1]"
XpNone == "/html/body/p[9]"
XpBad == "//*["
XPaths == {XpElem, XpNone, XpBad}

\* document.evaluate(xpath, document, null, FIRST_ORDERED_NODE_TYPE, null)
\* on the analysed page: a node, no node, or a thrown error
Document(xpath) ==
    CASE xpath = XpElem ->
            [kind |-> "node", tagName |-> "IMG", id |-> "logo",
             className |-> <<"hero", "wide", "dark">>]
      [] xpath = XpNone -> [kind |-> "none"]
      [] OTHER -> [kind |-> "throws", message |-> "not a valid XPath expression"]

SelString(v) == [type |-> "string", val |-> v]
SelFalse == [type |-> "boolean", val |-> "false"]
RawSelector(xpath) ==
    CASE xpath = XpElem -> SelString("img#logo")
      [] xpath = XpNone -> SelFalse
      [] OTHER -> SelString("body > *")
RawContrast(xpath) ==
    CASE xpath = XpElem -> <<"2.51", "#777777", "#ffffff">>
      [] xpath = XpNone -> <<"1.07", "#fefefe", "#ffffff">>
      [] OTHER -> <<"4.2", "#808080", "#ffffff">>
RawDescription(ruleId) ==
    CASE ruleId = "alt_missing" -> "Missing alternative text"
      [] ruleId = "contrast" -> "Very low contrast"
      [] OTHER -> ""

MaxXp == 3
\* the count fields the raw output may carry: none, or more than any list holds
RawCounts == {0, 7}
\* the xpaths lists of the rules other than the first
OtherXPathLists == {<<>>, <<XpElem>>, <<XpNone, XpNone>>, <<XpBad, XpElem>>}
ErrorRules == {"alt_missing", "label_missing"}
ContrastRules == {"contrast"}
OtherCategories == {"alert", "structure"}
\* the key order of the items objects (insertion order of the raw output)
RuleOrder == <<"alt_missing", "label_missing", "contrast">>

\* text and hidden as the rule label_missing carries them: a list of one
\* entry, whatever the number of xpaths, and a value that is not a list
RawText == <<"Name">>
RawHidden == "false"

\* One rule group of the raw output: selectors, text and hidden run parallel
\* to xpaths, contrastdata is carried by the rules of the contrast category,
\* description is absent for rules the analyzer has no text for.
RawRule(category, ruleId, xp, k) ==
    [count |-> k,
     xpaths |-> xp,
     selectors |-> [i \in 1..Len(xp) |-> RawSelector(xp[i])]]
    @@ (IF category = "contrast"
        THEN [contrastdata |-> [i \in 1..Len(xp) |-> RawContrast(xp[i])]]
        ELSE <<>>)
    @@ (IF RawDescription(ruleId) # ""
        THEN [description |-> RawDescription(ruleId)]
        ELSE <<>>)
    @@ (IF ruleId = "label_missing"
        THEN [text |-> RawText, hidden |-> RawHidden]
        ELSE <<>>)

XPathLists(ruleId, maxXp) ==
    IF ruleId = RuleOrder[1] THEN SeqsUpTo(XPaths, maxXp) ELSE OtherXPathLists

\* the items objects a category may carry: any subset of its rules, each
\* with one of its xpaths lists
RawItems(category, rules, k, maxXp) ==
    UNION {{[r \in d |-> RawRule(category, r, xs[r], k)] :
              xs \in {f \in [d -> SeqsUpTo(XPaths, maxXp) \cup OtherXPathLists] :
                        \A r \in d : f[r] \in XPathLists(r, maxXp)}} :
           d \in SUBSET rules}

\* a category is absent (<<>>) or present with one of its items objects
Optional(S) == {<<>>} \cup {<<x>> : x \in S}

RawCategories(e, c, others, k) ==
    [name \in (IF e = <<>> THEN {} ELSE {"error"})
              \cup (IF c = <<>> THEN {} ELSE {"contrast"})
              \cup others |->
        [count |-> k,
         items |-> IF name = "error" THEN e[1]
                   ELSE IF name = "contrast" THEN c[1]
                   ELSE <<>>]]

RawResults(maxXp) ==
    UNION {{[categories |-> RawCategories(e, c, others, k)] :
              e \in Optional(RawItems("error", ErrorRules, k, maxXp)),
              c \in Optional(RawItems("contrast", ContrastRules, k, maxXp)),
              others \in SUBSET OtherCategories} :
           k \in RawCounts}

(***************************************************************************)
(* enhanceResultsWithDOMInfo (wave-test.ts, analyzer.js)                   *)
(***************************************************************************)
NullInfo == [kind |-> "null"]
UndefinedInfo == [kind |-> "undefined"]

\* Object.keys(obj) for an object whose keys were inserted in `order`
Keys(obj, order) == SelectSeq(order, LAMBDA key : key \in DOMAIN obj)

\* Array.prototype.slice(a, b) for 0 <= a <= b
Slice(arr, a, b) == SubSeq(arr, a + 1, Min(b, Len(arr)))

RECURSIVE JoinStr(_, _)
JoinStr(parts, sep) ==
    IF parts = <<>> THEN ""
    ELSE IF Len(parts) = 1 THEN parts[1]
    ELSE parts[1] \o sep \o JoinStr(Tail(parts), sep)

ToLowerCase(tag) == CASE tag = "IMG" -> "img" [] tag = "DIV" -> "div" [] OTHER -> tag

generateSelector(element) ==
    IF element.id # "" THEN "#" \o element.id
    ELSE IF element.className # <<>>
         THEN "." \o JoinStr(Slice(element.className, 0, 2), ".")
         ELSE ToLowerCase(element.tagName)

\* variant of getElementInfo whose catch returns null: no error marker
getElementInfo_ErrorAsNull(xpath) ==
    LET element == Document(xpath)
    IN  IF element.kind # "node" THEN NullInfo
        ELSE [kind |-> "info",
              tagName |-> element.tagName,
              id |-> element.id,
              className |-> element.className,
              selector |-> generateSelector(element)]

\* The text, innerHTML and attributes of the element are captured by the code
\* as well; nothing in the repository reads them back, they are left out.
getElementInfo(xpath) ==
    LET element == Document(xpath)
    IN  IF element.kind = "throws" THEN [kind |-> "error", error |-> element.message]
        ELSE IF element.kind = "none" THEN NullInfo
        ELSE [kind |-> "info",
              tagName |-> element.tagName,
              id |-> element.id,
              className |-> element.className,
              selector |-> generateSelector(element)]

\* variant of UniqueXPaths that keeps the last occurrence of an XPath
RECURSIVE UniqueXPaths_KeepLast(_)
UniqueXPaths_KeepLast(xp) ==
    IF xp = <<>> THEN <<>>
    ELSE IF Includes(Tail(xp), Head(xp)) THEN UniqueXPaths_KeepLast(Tail(xp))
    ELSE <<Head(xp)>> \o UniqueXPaths_KeepLast(Tail(xp))

\* [...new Set(item.xpaths)]: a Set iterates in insertion order
RECURSIVE SetInsertAll(_, _)
SetInsertAll(xp, acc) ==
    IF xp = <<>> THEN acc
    ELSE SetInsertAll(Tail(xp),
                      IF Includes(acc, Head(xp)) THEN acc ELSE Append(acc, Head(xp)))
UniqueXPaths(xp) == SetInsertAll(xp, <<>>)

\* variant of ItemCount that keeps the count of the raw output
ItemCount_Raw(item, uniqueXPaths) == item.count

\* item.count = uniqueXPaths.length
ItemCount(item, uniqueXPaths) == Len(uniqueXPaths)

\* uniqueXPaths.map(xpath => getElementInfo(xpath)).filter(info => info !== null)
DomInfoOf(uniqueXPaths) ==
    SelectSeq([i \in 1..Len(uniqueXPaths) |-> getElementInfo(uniqueXPaths[i])],
              LAMBDA info : info # NullInfo)

PositionalFields == {"selectors", "text", "hidden", "contrastdata"}

\* item[f] && Array.isArray(item[f]): of the fields a raw rule carries, hidden
\* is the one that is not a list
IsArray(item, f) == f # "hidden"

\* variant of Truncate that cuts to the length of the raw xpaths list
Truncate_RawLength(item, f, uniqueXPaths) == Slice(item[f], 0, Len(item.xpaths))

\* item[f] = item[f].slice(0, uniqueXPaths.length)
Truncate(item, f, uniqueXPaths) == Slice(item[f], 0, Len(uniqueXPaths))

EnhanceItem(item) ==
    LET uniqueXPaths == UniqueXPaths(item.xpaths)
    IN  [f \in DOMAIN item \cup {"domInfo"} |->
            CASE f = "xpaths" -> uniqueXPaths
              [] f = "count" -> ItemCount(item, uniqueXPaths)
              [] f = "domInfo" -> DomInfoOf(uniqueXPaths)
              [] f \in PositionalFields /\ IsArray(item, f) -> Truncate(item, f, uniqueXPaths)
              [] OTHER -> item[f]]

RECURSIVE SumCounts(_, _)
SumCounts(items, keys) ==
    IF keys = {} THEN 0
    ELSE LET r == CHOOSE x \in keys : TRUE
         IN  items[r].count + SumCounts(items, keys \ {r})

\* variant of CategoryCount that keeps the count of the raw output
CategoryCount_Stale(category, items) == category.count

\* Object.values(category.items).reduce((total, item) => total + (item.count || 0), 0)
CategoryCount(category, items) == SumCounts(items, DOMAIN items)

EnhanceCategory(category) ==
    LET items == [r \in DOMAIN category.items |-> EnhanceItem(category.items[r])]
    IN  [category EXCEPT !.items = items, !.count = CategoryCount(category, items)]

\* variant of FilterCategories that lets every category through
FilterCategories_All(categories) == categories

\* filteredCategories: error and contrast, each when present
FilterCategories(categories) ==
    [c \in DOMAIN categories \cap {"error", "contrast"} |-> categories[c]]

enhanceResultsWithDOMInfo(waveResults) ==
    LET filteredCategories == FilterCategories(waveResults.categories)
    IN  [waveResults EXCEPT !.categories =
            [c \in DOMAIN filteredCategories |-> EnhanceCategory(filteredCategories[c])]]

\* The getElementInfo calls of one enhancement, in call order
RECURSIVE Flatten(_)
Flatten(seqs) == IF seqs = <<>> THEN <<>> ELSE Head(seqs) \o Flatten(Tail(seqs))

CategoryKeyOrder == <<"error", "contrast", "alert", "structure">>

LookupsOfItem(c, r, item) ==
    LET uniqueXPaths == UniqueXPaths(item.xpaths)
    IN  [i \in 1..Len(uniqueXPaths) |-> [category |-> c, rule |-> r, xpath |-> uniqueXPaths[i]]]

LookupsOf(waveResults) ==
    LET filteredCategories == FilterCategories(waveResults.categories)
        cats == Keys(filteredCategories, CategoryKeyOrder)
    IN  Flatten([i \in 1..Len(cats) |->
            LET items == filteredCategories[cats[i]].items
                rules == Keys(items, RuleOrder)
            IN  Flatten([j \in 1..Len(rules) |->
                    LookupsOfItem(cats[i], rules[j], items[rules[j]])])])

(***************************************************************************)
(* Report assembler: the csvRows loop of runAccessibilityTest              *)
(***************************************************************************)
\* variant of CategoriesToProcess with the two categories swapped
CategoriesToProcess_Reversed == <<"contrast", "error">>

CategoriesToProcess == <<"error", "contrast">>

ToUpperCase(category) ==
    CASE category = "error" -> "ERROR" [] category = "contrast" -> "CONTRAST"

\* variant of Impact that does not look at the category
Impact_Critical(category) == "Critical"

\* category === 'error' ? 'Critical' : 'Serious'
Impact(category) == IF category = "error" THEN "Critical" ELSE "Serious"

\* arr?.[index] with a 1-based index; `missing` stands for undefined
At(obj, field, index, missing) ==
    IF field \in DOMAIN obj /\ index <= Len(obj[field]) THEN obj[field][index] ELSE missing

ElementInfo(domInfo, xpath) ==
    IF domInfo.kind = "info" \/ (domInfo.kind = "error" /\ domInfo.error = "")
    THEN (IF domInfo.kind = "info" /\ domInfo.tagName # "" THEN domInfo.tagName ELSE "Unknown")
         \o (IF domInfo.kind = "info" /\ domInfo.id # "" THEN "#" \o domInfo.id ELSE "")
         \o (IF domInfo.kind = "info" /\ domInfo.className # <<>>
             THEN "." \o JoinStr(domInfo.className, ".") ELSE "")
    ELSE xpath

Description(rule, ruleId) ==
    IF "description" \in DOMAIN rule /\ rule.description # "" THEN rule.description ELSE ruleId

CsvRow(category, ruleId, rule, xpath, index) ==
    LET selectorValue == At(rule, "selectors", index, SelFalse)
        selector == IF selectorValue.type = "string" THEN selectorValue.val ELSE "N/A"
        domInfo == At(rule, "domInfo", index, UndefinedInfo)
        contrastData == At(rule, "contrastdata", index, <<>>)
        additionalInfo ==
            Description(rule, ruleId)
              \o (IF contrastData # <<>>
                  THEN " (Contrast: " \o contrastData[1] \o ", Colors: "
                       \o contrastData[2] \o " on " \o contrastData[3] \o ")"
                  ELSE "")
    IN  << ruleId,
           ToUpperCase(category),
           Impact(category),
           Description(rule, ruleId),
           ElementInfo(domInfo, xpath),
           xpath,
           selector,
           additionalInfo,
           "https://wave.webaim.org/help#" \o ruleId >>

RowsOfRule(category, ruleId, rule) ==
    IF rule.count > 0
    THEN LET uniqueXpaths == UniqueXPaths(rule.xpaths)
         IN  [i \in 1..Len(uniqueXpaths) |-> CsvRow(category, ruleId, rule, uniqueXpaths[i], i)]
    ELSE <<>>

RowsOfCategory(category, waveResults) ==
    IF category \in DOMAIN waveResults /\ waveResults[category].count > 0
    THEN LET items == waveResults[category].items
             rules == Keys(items, RuleOrder)
         IN  Flatten([j \in 1..Len(rules) |-> RowsOfRule(category, rules[j], items[rules[j]])])
    ELSE <<>>

BuildCsvRows(waveResults) ==
    Flatten([i \in 1..Len(CategoriesToProcess) |->
                RowsOfCategory(CategoriesToProcess[i], waveResults)])

Headers == <<"Rule ID", "Category", "Impact", "Description", "Element",
             "XPath", "Selector", "Additional Info", "Help URL">>

(***************************************************************************)
(* One page analysis: run() resolves, the results are enhanced in the      *)
(* page, the host builds the CSV rows from violations (= the enhanced      *)
(* categories)                                                             *)
(***************************************************************************)
InitEnh ==
    /\ raw \in RawResults(MaxXp)
    /\ enhanced = NoResults
    /\ lookups = <<>>
    /\ csvRows = <<>>
    /\ stage = "raw"
    /\ CsvIdle
    /\ FnIdle
    /\ BatchIdle
    /\ ProcIdle
    /\ RunIdle
    /\ PollIdle

Enhance ==
    /\ stage = "raw"
    /\ enhanced' = enhanceResultsWithDOMInfo(raw)
    /\ lookups' = LookupsOf(raw)
    /\ stage' = "enhanced"
    /\ UNCHANGED <<raw, csvRows, csvVars, fnVars, batchVars, procVars, runVars, pollVars>>

AssembleRows ==
    /\ stage = "enhanced"
    /\ csvRows' = BuildCsvRows(enhanced.categories)
    /\ stage' = "reported"
    /\ UNCHANGED <<raw, enhanced, lookups, csvVars, fnVars, batchVars, procVars, runVars, pollVars>>

NextEnh == Enhance \/ AssembleRows
SpecEnh == InitEnh /\ [][NextEnh]_vars

(***************************************************************************)
(* Properties of the enhancer and of the report rows                       *)
(***************************************************************************)
Range(seq) == {seq[i] : i \in 1..Len(seq)}
Enhanced == stage \in {"enhanced", "reported"}
Retained == DOMAIN enhanced.categories
RulesOf(c) == DOMAIN enhanced.categories[c].items
RawItem(c, r) == raw.categories[c].items[r]
EnhItem(c, r) == enhanced.categories[c].items[r]

\* C1: after the enhancement the count of every rule group of a retained
\* category is the length of its xpaths list, which is the number of distinct
\* XPaths of the raw list, whatever count the raw output carried.
C1_RuleCount ==
    Enhanced =>
        \A c \in Retained : \A r \in RulesOf(c) :
            /\ EnhItem(c, r).count = Len(EnhItem(c, r).xpaths)
            /\ EnhItem(c, r).count = Cardinality(Range(RawItem(c, r).xpaths))

C1_Witness ==
    /\ Enhanced
    /\ "error" \in Retained
    /\ "alt_missing" \in RulesOf("error")
    /\ RawItem("error", "alt_missing").count = 7
    /\ RawItem("error", "alt_missing").xpaths = <<XpNone, XpElem, XpNone>>
    /\ EnhItem("error", "alt_missing").count = 2

RECURSIVE SumSeq(_)
SumSeq(ns) == IF ns = <<>> THEN 0 ELSE Head(ns) + SumSeq(Tail(ns))
CountsIn(items) ==
    LET rules == Keys(items, RuleOrder)
    IN  SumSeq([i \in 1..Len(rules) |-> items[rules[i]].count])

\* C2: after the enhancement the count of every retained category is the sum
\* of the counts of its rule groups.
C2_CategoryCount ==
    Enhanced =>
        \A c \in Retained :
            enhanced.categories[c].count = CountsIn(enhanced.categories[c].items)

C2_Witness ==
    /\ Enhanced
    /\ "error" \in Retained
    /\ RulesOf("error") = ErrorRules
    /\ raw.categories["error"].count = 7
    /\ EnhItem("error", "alt_missing").count = 3
    /\ EnhItem("error", "label_missing").count = 2
    /\ enhanced.categories["error"].count = 5

FirstIndex(seq, x) == CHOOSE i \in 1..Len(seq) : seq[i] = x /\ \A j \in 1..(i - 1) : seq[j] # x

\* u holds every element of xp once, in the order of the first occurrences
IsFirstOccurrenceDedup(xp, u) ==
    /\ Range(u) = Range(xp)
    /\ \A i, j \in 1..Len(u) : i < j => FirstIndex(xp, u[i]) < FirstIndex(xp, u[j])

LookupsFor(c, r, x) ==
    {i \in 1..Len(lookups) : lookups[i] = [category |-> c, rule |-> r, xpath |-> x]}

\* C3: the enhanced xpaths list of every rule is the raw list without its
\* duplicates, each XPath at the place of its first occurrence, and exactly
\* one DOM lookup is made per distinct XPath of the rule (and no other).
C3_Dedup ==
    Enhanced =>
        /\ \A c \in Retained : \A r \in RulesOf(c) :
              /\ IsFirstOccurrenceDedup(RawItem(c, r).xpaths, EnhItem(c, r).xpaths)
              /\ \A x \in Range(RawItem(c, r).xpaths) : Cardinality(LookupsFor(c, r, x)) = 1
        /\ \A i \in 1..Len(lookups) :
              /\ lookups[i].category \in Retained
              /\ lookups[i].rule \in RulesOf(lookups[i].category)
              /\ lookups[i].xpath \in Range(RawItem(lookups[i].category, lookups[i].rule).xpaths)

C3_Witness ==
    /\ Enhanced
    /\ DOMAIN raw.categories = {"error"}
    /\ RulesOf("error") = {"alt_missing"}
    /\ RawItem("error", "alt_missing").xpaths = <<XpBad, XpElem, XpBad>>
    /\ EnhItem("error", "alt_missing").xpaths = <<XpBad, XpElem>>
    /\ Len(lookups) = 2

\* C4: the enhanced output holds no category but error and contrast, and
\* holds each of the two exactly when the raw output holds it.
C4_Categories ==
    Enhanced =>
        /\ Retained \subseteq {"error", "contrast"}
        /\ \A c \in {"error", "contrast"} : c \in Retained <=> c \in DOMAIN raw.categories

C4_Witness ==
    /\ Enhanced
    /\ DOMAIN raw.categories = {"error", "alert", "structure"}
    /\ Retained = {"error"}

RowsFor(c, r, x) ==
    {i \in 1..Len(csvRows) :
        csvRows[i][1] = r /\ csvRows[i][2] = ToUpperCase(c) /\ csvRows[i][6] = x}

CategoryTotal(c) == IF c \in Retained THEN enhanced.categories[c].count ELSE 0

\* C5: the CSV holds one data row per XPath of the deduplicated list of every
\* rule of error and contrast: as many rows as the two category counts add up
\* to, each row with the nine fields of the header in header order, the error
\* rows before the contrast rows.
C5_Rows ==
    stage = "reported" =>
        /\ Len(csvRows) = CategoryTotal("error") + CategoryTotal("contrast")
        /\ \A c \in Retained : \A r \in RulesOf(c) :
              \A x \in Range(EnhItem(c, r).xpaths) : Cardinality(RowsFor(c, r, x)) = 1
        /\ \A i \in 1..Len(csvRows) :
              /\ Len(csvRows[i]) = Len(Headers)
              /\ csvRows[i][1] \in Range(RuleOrder)
              /\ csvRows[i][2] \in {"ERROR", "CONTRAST"}
              /\ csvRows[i][3] \in {"Critical", "Serious"}
              /\ csvRows[i][6] \in XPaths
              /\ csvRows[i][9] = "https://wave.webaim.org/help#" \o csvRows[i][1]
        /\ \A i, j \in 1..Len(csvRows) :
              (csvRows[i][2] = "CONTRAST" /\ csvRows[j][2] = "ERROR") => j < i

C5_Witness ==
    /\ stage = "reported"
    /\ Len(csvRows) = 4
    /\ csvRows[1][2] = "ERROR"
    /\ csvRows[2][2] = "ERROR"
    /\ csvRows[3][2] = "ERROR"
    /\ csvRows[4][2] = "CONTRAST"
    /\ RawItem("error", "alt_missing").xpaths = <<XpElem, XpElem, XpNone>>

\* C6: a row of category ERROR has impact Critical, a row of category
\* CONTRAST has impact Serious, and there is no other pair.
C6_Impact ==
    stage = "reported" =>
        \A i \in 1..Len(csvRows) :
            \/ csvRows[i][2] = "ERROR" /\ csvRows[i][3] = "Critical"
            \/ csvRows[i][2] = "CONTRAST" /\ csvRows[i][3] = "Serious"

C6_Witness ==
    /\ stage = "reported"
    /\ \E i \in 1..Len(csvRows) : csvRows[i][2] = "ERROR" /\ csvRows[i][3] = "Critical"
    /\ \E i \in 1..Len(csvRows) : csvRows[i][2] = "CONTRAST" /\ csvRows[i][3] = "Serious"

(***************************************************************************)
(* Batch orchestrator: analyzeBatch and _processUrlWithRetry (analyzer.js) *)
(* The urls are numbered 1..config.urls; one action per stretch of code    *)
(* between two awaits.                                                     *)
(***************************************************************************)
MaxUrls == 3
MaxRetriesBound == 2
Delays == {0, 1000}
AnalysisErrors == {"Failed to analyze: Timeout 30000ms exceeded",
                   "Failed to analyze: WAVE failed to initialize after 50 attempts"}
SaveError == "ENOSPC: no space left on device, write"

UndefinedResult == [undefined |-> TRUE]
IsDefined(r) == "undefined" \notin DOMAIN r

InitBatch ==
    /\ config \in [maxRetries : 0..MaxRetriesBound,
                   delay : Delays,
                   saveIndividualReports : BOOLEAN,
                   urls : 0..MaxUrls]
    /\ cur = 1
    /\ attempt = 0
    /\ bpc = "for"
    /\ results = <<>>
    /\ saved = {}
    /\ tries = [u \in 1..config.urls |-> 0]
    /\ fails = [u \in 1..config.urls |-> 0]
    /\ lastErr = [u \in 1..config.urls |-> ""]
    /\ prev = "none"
    /\ thrownFrom = "none"
    /\ summary = NoSummary
    /\ mode = "api"
    /\ browser = "open"
    /\ exitCode = -1
    /\ RunIdle
    /\ PollIdle
    /\ CsvIdle
    /\ FnIdle
    /\ EnhIdle

\* for (let i = 0; i < urls.length; i++): call _processUrlWithRetry, attempt = 0
ProcessUrl ==
    /\ bpc = "for"
    /\ cur <= config.urls
    /\ attempt' = 0
    /\ bpc' = "while"
    /\ UNCHANGED <<config, cur, results, saved, tries, fails, lastErr, prev, thrownFrom>>

\* variant of Push that goes on to the next url without the delay
Push_NoDelay(result) ==
    /\ results' = Append(results, result)
    /\ bpc' = "for"
    /\ cur' = cur + 1

\* results.push(result), then the delay between urls (except after the last one)
Push(result) ==
    /\ results' = Append(results, result)
    /\ IF cur < config.urls /\ config.delay > 0
       THEN bpc' = "urlDelay" /\ cur' = cur
       ELSE bpc' = "for" /\ cur' = cur + 1

\* while (attempt < config.maxRetries) { try { await this.analyzeUrl(url) ...
StartAttempt ==
    /\ bpc = "while"
    /\ attempt < config.maxRetries
    /\ bpc' = "analyzing"
    /\ tries' = [tries EXCEPT ![cur] = @ + 1]
    /\ UNCHANGED <<config, cur, attempt, results, saved, fails, lastErr, prev, thrownFrom>>

\* the while condition is false on entry: the function ends without a return
FallThrough ==
    /\ bpc = "while"
    /\ attempt >= config.maxRetries
    /\ Push(UndefinedResult)
    /\ UNCHANGED <<config, attempt, saved, tries, fails, lastErr, prev, thrownFrom>>

SuccessRecord(url, n) ==
    [url |-> url, success |-> TRUE, report |-> [url |-> url], attempts |-> n + 1]
FailureRecord(url, message, n) ==
    [url |-> url, success |-> FALSE, error |-> message, attempts |-> n]

\* variant of CatchCovers with the save outside the try block
CatchCovers_AnalyzeOnly(call) == call = "analyzeUrl"

\* the calls of the loop body that stand inside try { ... } catch
CatchCovers(call) == call \in {"analyzeUrl", "_saveIndividualReport"}

\* variant of RetriesExhausted that is off by one
RetriesExhausted_Late(n, maxRetries) == n > maxRetries

\* if (attempt >= config.maxRetries)
RetriesExhausted(n, maxRetries) == n >= maxRetries

\* `call` threw `message`: the catch block when it covers the call, else the
\* exception leaves _processUrlWithRetry and analyzeBatch
Thrown(call, message) ==
    /\ fails' = [fails EXCEPT ![cur] = @ + 1]
    /\ lastErr' = [lastErr EXCEPT ![cur] = message]
    /\ IF CatchCovers(call)
       THEN /\ attempt' = attempt + 1
            /\ thrownFrom' = thrownFrom
            /\ IF RetriesExhausted(attempt + 1, config.maxRetries)
               THEN Push(FailureRecord(cur, message, attempt + 1)) /\ prev' = prev
               ELSE bpc' = "retryDelay" /\ prev' = "attempt"
                    /\ UNCHANGED <<cur, results>>
       ELSE /\ bpc' = "threw"
            /\ thrownFrom' = "_processUrlWithRetry"
            /\ UNCHANGED <<cur, attempt, results, prev>>

\* analyzeUrl resolves with a report
AnalyzeOk ==
    /\ bpc = "analyzing"
    /\ IF config.saveIndividualReports
       THEN bpc' = "saving" /\ UNCHANGED <<cur, results>>
       ELSE Push(SuccessRecord(cur, attempt))
    /\ prev' = "attempt"
    /\ UNCHANGED <<config, attempt, saved, tries, fails, lastErr, thrownFrom>>

\* analyzeUrl rejects
AnalyzeFail ==
    /\ bpc = "analyzing"
    /\ \E message \in AnalysisErrors : Thrown("analyzeUrl", message)
    /\ UNCHANGED <<config, saved, tries>>

\* _saveIndividualReport wrote the file
SaveOk ==
    /\ bpc = "saving"
    /\ saved' = saved \cup {cur}
    /\ Push(SuccessRecord(cur, attempt))
    /\ UNCHANGED <<config, attempt, tries, fails, lastErr, prev, thrownFrom>>

\* _saveIndividualReport rejects (mkdirSync or writeFileSync threw)
SaveFail ==
    /\ bpc = "saving"
    /\ Thrown("_saveIndividualReport", SaveError)
    /\ UNCHANGED <<config, saved, tries>>

\* await this._delay(config.delay) of the catch block is over
RetryDelayDone ==
    /\ bpc = "retryDelay"
    /\ bpc' = "while"
    /\ prev' = "retryDelay"
    /\ UNCHANGED <<config, cur, attempt, results, saved, tries, fails, lastErr, thrownFrom>>

\* await this._delay(config.delay) between two urls is over
UrlDelayDone ==
    /\ bpc = "urlDelay"
    /\ bpc' = "for"
    /\ cur' = cur + 1
    /\ prev' = "urlDelay"
    /\ UNCHANGED <<config, attempt, results, saved, tries, fails, lastErr, thrownFrom>>

\* results.filter(r => r.success)
Successful(rs) == SelectSeq(rs, LAMBDA r : r.success)

\* variant of Failed that does not filter
Failed_Unfiltered(rs) == rs

\* results.filter(r => !r.success)
Failed(rs) == SelectSeq(rs, LAMBDA r : ~r.success)

\* r.error || null
ErrorOrNull(r) == IF "error" \in DOMAIN r /\ r.error # "" THEN r.error ELSE "null"

\* the counts and the per-url entries of the summary object (the timestamp,
\* the duration and the figures derived from the reports are not modelled)
createBatchSummary(rs, totalUrls) ==
    [computed |-> TRUE,
     totalUrls |-> totalUrls,
     successful |-> Len(Successful(rs)),
     failed |-> Len(Failed(rs)),
     results |-> [i \in 1..Len(rs) |->
                     [url |-> rs[i].url, success |-> rs[i].success,
                      attempts |-> rs[i].attempts, error |-> ErrorOrNull(rs[i])]]]

\* _createBatchSummary(results, urls.length, startTime): results.filter(r =>
\* r.success) throws a TypeError on an undefined entry
Summarize ==
    /\ bpc = "for"
    /\ cur > config.urls
    /\ IF \A u \in 1..Len(results) : IsDefined(results[u])
       THEN /\ bpc' = "savingSummary"
            /\ thrownFrom' = thrownFrom
            /\ summary' = createBatchSummary(results, config.urls)
       ELSE /\ bpc' = "threw"
            /\ thrownFrom' = "_createBatchSummary"
            /\ summary' = summary
    /\ UNCHANGED <<config, cur, attempt, results, saved, tries, fails, lastErr, prev>>

\* _saveBatchSummary wrote the file: analyzeBatch returns results
SummarySaved ==
    /\ bpc = "savingSummary"
    /\ bpc' = "returned"
    /\ UNCHANGED <<config, cur, attempt, results, saved, tries, fails, lastErr, prev,
                   thrownFrom, summary>>

\* _saveBatchSummary rejects: nothing catches it in analyzeBatch
SummarySaveFail ==
    /\ bpc = "savingSummary"
    /\ bpc' = "threw"
    /\ thrownFrom' = "_saveBatchSummary"
    /\ UNCHANGED <<config, cur, attempt, results, saved, tries, fails, lastErr, prev, summary>>

NextBatch ==
    \/ /\ \/ ProcessUrl
          \/ StartAttempt
          \/ FallThrough
          \/ AnalyzeOk
          \/ AnalyzeFail
          \/ SaveOk
          \/ SaveFail
          \/ RetryDelayDone
          \/ UrlDelayDone
       /\ UNCHANGED <<summary, csvVars, fnVars, enhVars, procVars, runVars, pollVars>>
    \/ /\ \/ Summarize
          \/ SummarySaved
          \/ SummarySaveFail
       /\ UNCHANGED <<csvVars, fnVars, enhVars, procVars, runVars, pollVars>>

SpecBatch == InitBatch /\ [][NextBatch]_vars

\* C10: a url is attempted at most maxRetries times and not again once an
\* attempt has succeeded; a delay precedes every re-attempt; a url whose
\* maxRetries attempts all failed is recorded with success = false, attempts =
\* maxRetries and the message of its last attempt; no exception leaves
\* _processUrlWithRetry.
C10_Retry ==
    /\ \A u \in 1..config.urls : tries[u] <= config.maxRetries
    /\ \A u \in 1..Len(results) :
          IsDefined(results[u]) =>
              /\ results[u].url = u
              /\ results[u].attempts = tries[u]
              /\ results[u].success <=> fails[u] < tries[u]
    /\ (bpc = "analyzing" /\ tries[cur] > 1) => prev = "retryDelay"
    /\ \A u \in 1..Len(results) :
          (fails[u] >= 1 /\ fails[u] = config.maxRetries) =>
              results[u] = [url |-> u, success |-> FALSE, error |-> lastErr[u],
                            attempts |-> config.maxRetries]
    /\ thrownFrom # "_processUrlWithRetry"

C10_Witness ==
    /\ config.maxRetries = 2
    /\ Len(results) = 2
    /\ results[1] = [url |-> 1, success |-> FALSE, error |-> SaveError, attempts |-> 2]
    /\ results[2].success
    /\ results[2].attempts = 2
    /\ tries = <<2, 2>>
    /\ fails = <<2, 1>>

\* the for loop of analyzeBatch is over
LoopDone == cur > config.urls
IsFailure(r) == IsDefined(r) /\ ~r.success

\* C11: a url recorded as failed after its attempts never stops the batch: no
\* exception leaves analyzeBatch while urls remain, every url after a failed
\* one has been attempted when the loop is over, the results array then holds
\* one entry per url, and the results analyzeBatch returns are one record per
\* input url in input order.
C11_Isolation ==
    /\ bpc = "threw" => LoopDone
    /\ Len(results) \in {cur - 1, cur}
    /\ LoopDone => Len(results) = config.urls
    /\ \A u \in 1..Len(results) :
          (IsFailure(results[u]) /\ LoopDone) =>
              \A v \in (u + 1)..config.urls : tries[v] >= 1
    /\ bpc = "returned" =>
          /\ Len(results) = config.urls
          /\ \A u \in 1..config.urls : IsDefined(results[u]) /\ results[u].url = u

C11_Witness ==
    /\ bpc = "returned"
    /\ config.urls = 3
    /\ config.maxRetries = 2
    /\ IsFailure(results[1])
    /\ fails[1] = 2
    /\ results[2].success
    /\ results[3].success

\* C12: the summary counts the records with success = true and those with
\* success = false, and the two add up to totalUrls, the number of input urls;
\* an individual report file exists for exactly the urls recorded as successful
\* when saveIndividualReports is set. With 3 urls of which only url 2 fails all
\* its attempts: successful = 2, failed = 1, reports for urls 1 and 3 only.
C12_Summary ==
    summary.computed =>
        /\ summary.successful = Cardinality({u \in 1..Len(results) : results[u].success})
        /\ summary.failed = Cardinality({u \in 1..Len(results) : ~results[u].success})
        /\ summary.successful + summary.failed = summary.totalUrls
        /\ summary.totalUrls = config.urls
        /\ saved = IF config.saveIndividualReports
                   THEN {u \in 1..Len(results) : results[u].success}
                   ELSE {}
        /\ (/\ config.urls = 3
            /\ results[1].success
            /\ ~results[2].success
            /\ results[3].success) =>
               /\ summary.successful = 2
               /\ summary.failed = 1
               /\ 2 \notin saved
               /\ config.saveIndividualReports => saved = {1, 3}

C12_Witness ==
    /\ summary.computed
    /\ bpc = "returned"
    /\ config.urls = 3
    /\ config.saveIndividualReports
    /\ fails = <<0, config.maxRetries, 0>>
    /\ config.maxRetries = 2
    /\ summary.successful = 2
    /\ summary.failed = 1
    /\ saved = {1, 3}

(***************************************************************************)
(* The entry points around the analyzer: WaveCLI.run with runBatchAnalysis  *)
(* ("batch") and runSingleAnalysis ("single") of cli.js, and analyzer.js    *)
(* run directly ("direct"). analyzeBatch is the actions of NextBatch.       *)
(***************************************************************************)
CliModes == {"batch", "single", "direct"}
DefaultBatchConfig ==
    [maxRetries |-> 2, delay |-> 1000, saveIndividualReports |-> TRUE, urls |-> 1]

\* --retries and --delay are any integer >= 0 (parseInteger); the cli passes no
\* saveIndividualReports, so the default (true) stands
InitCli ==
    /\ mode \in CliModes
    /\ IF mode = "batch"
       THEN config \in [maxRetries : 0..MaxRetriesBound,
                        delay : Delays,
                        saveIndividualReports : {TRUE},
                        urls : 0..MaxUrls]
       ELSE config = DefaultBatchConfig
    /\ cur = 1
    /\ attempt = 0
    /\ bpc = "cli"
    /\ results = <<>>
    /\ saved = {}
    /\ tries = [u \in 1..config.urls |-> 0]
    /\ fails = [u \in 1..config.urls |-> 0]
    /\ lastErr = [u \in 1..config.urls |-> ""]
    /\ prev = "none"
    /\ thrownFrom = "none"
    /\ summary = NoSummary
    /\ browser = "none"
    /\ exitCode = -1
    /\ RunIdle
    /\ PollIdle
    /\ CsvIdle
    /\ FnIdle
    /\ EnhIdle

\* the analyzer's actions leave the process variables alone, the entry
\* points' actions leave alone what analyzeBatch keeps
KeepBatch == UNCHANGED <<config, cur, attempt, results, saved, tries, fails, lastErr, prev,
                         summary>>

\* runBatchAnalysis: loadUrlsFromFile throws when the file holds no url, and
\* run() catches: process.exit(1) before an analyzer exists
LoadUrlsFail ==
    /\ bpc = "cli"
    /\ mode = "batch"
    /\ config.urls = 0
    /\ bpc' = "exited"
    /\ exitCode' = 1
    /\ thrownFrom' = "loadUrlsFromFile"
    /\ UNCHANGED <<mode, browser>>
    /\ KeepBatch

\* new WaveStandaloneAnalyzer(...); await analyzer.initialize()
CreateAnalyzer ==
    /\ bpc = "cli"
    /\ mode = "batch" => config.urls > 0
    /\ bpc' = "initialize"
    /\ UNCHANGED <<mode, browser, exitCode, thrownFrom>>
    /\ KeepBatch

\* initialize() resolved: the browser and its page are open
InitializeOk ==
    /\ bpc = "initialize"
    /\ browser' = "open"
    /\ bpc' = IF mode = "batch" THEN "for" ELSE "analyzing1"
    /\ UNCHANGED <<mode, exitCode, thrownFrom>>
    /\ KeepBatch

\* initialize() rejected: chromium.launch failed (no browser), or newPage,
\* setExtraHTTPHeaders or readFileSync failed after the launch
InitializeFail ==
    /\ bpc = "initialize"
    /\ \E launched \in BOOLEAN : browser' = IF launched THEN "open" ELSE "none"
    /\ bpc' = "threw"
    /\ thrownFrom' = "initialize"
    /\ UNCHANGED <<mode, exitCode>>
    /\ KeepBatch

\* analyzer.analyzeUrl(url) of the single and direct entries resolved
AnalyzeUrlOk ==
    /\ bpc = "analyzing1"
    /\ bpc' = "saving1"
    /\ UNCHANGED <<mode, browser, exitCode, thrownFrom>>
    /\ KeepBatch

\* analyzer.analyzeUrl(url) rejected
AnalyzeUrlFail ==
    /\ bpc = "analyzing1"
    /\ bpc' = "threw"
    /\ thrownFrom' = "analyzeUrl"
    /\ UNCHANGED <<mode, browser, exitCode>>
    /\ KeepBatch

\* analyzer.saveReport(report, outputFile) wrote the file
SaveReportOk ==
    /\ bpc = "saving1"
    /\ bpc' = "returned"
    /\ UNCHANGED <<mode, browser, exitCode, thrownFrom>>
    /\ KeepBatch

\* analyzer.saveReport(report, outputFile) threw
SaveReportFail ==
    /\ bpc = "saving1"
    /\ bpc' = "threw"
    /\ thrownFrom' = "saveReport"
    /\ UNCHANGED <<mode, browser, exitCode>>
    /\ KeepBatch

\* analyzer.close(): closes the page and the browser when there is one (a
\* throwing close is caught and logged)
Closed(b) == IF b = "open" THEN "closed" ELSE b

\* cli.js: finally { await analyzer.close() }, then run() returns (exit code
\* 0 when the event loop drains) or its catch calls process.exit(1)
CliFinally ==
    /\ bpc \in {"returned", "threw"}
    /\ mode \in {"batch", "single"}
    /\ browser' = Closed(browser)
    /\ exitCode' = IF bpc = "returned" THEN 0 ELSE 1
    /\ bpc' = "exited"
    /\ UNCHANGED <<mode, thrownFrom>>
    /\ KeepBatch

\* analyzer.js run directly: .catch(error => { ...; process.exit(1) }) stands
\* before .finally(() => analyzer.close()): the process ends inside the catch
DirectCatch ==
    /\ bpc = "threw"
    /\ mode = "direct"
    /\ exitCode' = 1
    /\ bpc' = "exited"
    /\ UNCHANGED <<mode, browser, thrownFrom>>
    /\ KeepBatch

\* analyzer.js run directly, no rejection: .finally(() => analyzer.close())
DirectFinally ==
    /\ bpc = "returned"
    /\ mode = "direct"
    /\ browser' = Closed(browser)
    /\ exitCode' = 0
    /\ bpc' = "exited"
    /\ UNCHANGED <<mode, thrownFrom>>
    /\ KeepBatch

NextCli ==
    \/ NextBatch
    \/ /\ \/ LoadUrlsFail
          \/ CreateAnalyzer
          \/ InitializeOk
          \/ InitializeFail
          \/ AnalyzeUrlOk
          \/ AnalyzeUrlFail
          \/ SaveReportOk
          \/ SaveReportFail
          \/ CliFinally
          \/ DirectCatch
          \/ DirectFinally
       /\ UNCHANGED <<csvVars, fnVars, enhVars, runVars, pollVars>>

SpecCli == InitCli /\ [][NextCli]_vars

(***************************************************************************)
(* run-test.ts: the module-level configuration code, login and runTests,   *)
(* with runAccessibilityTest (wave-test.ts) as seen from its caller.        *)
(***************************************************************************)
\* !value of an environment variable: undefined or the empty string
Missing(value) == value = Undefined \/ value = <<>>

\* variant of CredentialsMissing that asks for both to be missing
CredentialsMissing_Both(username, password) == Missing(username) /\ Missing(password)

\* !LOGIN_USERNAME || !LOGIN_PASSWORD
CredentialsMissing(username, password) == Missing(username) \/ Missing(password)

Separators == {COMMA, NL}
Whitespace == {" ", "\t", "\r", NL}

\* String.prototype.split(/[,\n]/): the pieces between the separators, empty
\* pieces included
RECURSIVE Split(_)
Split(s) ==
    LET at == {i \in 1..Len(s) : s[i] \in Separators}
    IN  IF at = {} THEN <<s>>
        ELSE LET i == CHOOSE j \in at : \A k \in at : j <= k
             IN  <<SubSeq(s, 1, i - 1)>> \o Split(SubSeq(s, i + 1, Len(s)))

\* variant of Trim that trims the start only
Trim_StartOnly(s) ==
    LET keep == {i \in 1..Len(s) : s[i] \notin Whitespace}
    IN  IF keep = {} THEN <<>>
        ELSE SubSeq(s, CHOOSE j \in keep : \A k \in keep : j <= k, Len(s))

\* String.prototype.trim()
Trim(s) ==
    LET keep == {i \in 1..Len(s) : s[i] \notin Whitespace}
    IN  IF keep = {} THEN <<>>
        ELSE SubSeq(s, CHOOSE j \in keep : \A k \in keep : j <= k,
                       CHOOSE j \in keep : \A k \in keep : j >= k)

\* the last .map of the urls pipeline: a full url as is, a path after DOMAIN
ResolveUrl(url, domain) ==
    IF StartsWith(url, HttpPrefix) \/ StartsWith(url, HttpsPrefix) THEN url
    ELSE LET relativePath == IF StartsWith(url, <<"/">>) THEN url ELSE <<"/">> \o url
         IN  domain \o relativePath

\* TEST_URLS_STR.split(/[,\n]/).map(trim).filter(length > 0).map(...)
ParseUrls(testUrls, domain) ==
    LET pieces == Split(testUrls)
        trimmed == [i \in 1..Len(pieces) |-> Trim(pieces[i])]
        kept == SelectSeq(trimmed, LAMBDA url : Len(url) > 0)
    IN  [i \in 1..Len(kept) |-> ResolveUrl(kept[i], domain)]

Domain == <<"h", "t", "t", "p", "s", ":", "/", "/", "d", ".", "i", "o">>
DomainSlash == <<"h", "t", "t", "p", "s", ":", "/", "/", "d", ".", "i", "o", "/">>
Username == <<"u">>
Password == <<"p">>
TestUrlsOne == <<"/", "a">>
TestUrlsTwo == <<"/", "a", COMMA, "b">>
TestUrlsThree == <<"/", "a", COMMA, " ", "b", NL, "h", "t", "t", "p", "s", ":", "/", "/", "x", ".", "i", "o", "/", "c">>
TestUrlsNone == <<COMMA>>
TestUrlsAlike == <<"/", "a", "/", "b", COMMA, "/", "a", "-", "b">>

Event(op, url, message, ms) == [op |-> op, url |-> url, message |-> message, ms |-> ms]

\* fs.writeFileSync(path, content): the file is created or replaced
WriteFile(fs, name, content) ==
    [n \in DOMAIN fs \cup {name} |-> IF n = name THEN content ELSE fs[n]]

InitRun ==
    /\ env \in [DOMAIN_STR : {Undefined, <<>>, Domain},
                TEST_URLS : {Undefined, <<>>, TestUrlsNone, TestUrlsOne, TestUrlsTwo,
                             TestUrlsThree, TestUrlsAlike},
                LOGIN_USERNAME : {Undefined, <<>>, Username},
                LOGIN_PASSWORD : {Undefined, <<>>, Password}]
    /\ urls = <<>>
    /\ rpc = "config"
    /\ ri = 0
    /\ resultsDir \in BOOLEAN
    /\ files = NoFiles
    /\ trace = <<>>
    /\ mode = "run-test"
    /\ browser = "none"
    /\ exitCode = -1
    /\ CsvIdle
    /\ FnIdle
    /\ EnhIdle
    /\ BatchIdle
    /\ PollIdle

\* process.exit(code): the process ends at once; no finally block runs
Exit(code) ==
    /\ exitCode' = code
    /\ rpc' = "exited"

\* the module-level code of run-test.ts up to the call of runTests()
LoadConfig ==
    /\ rpc = "config"
    /\ IF Missing(env.DOMAIN_STR) \/ Missing(env.TEST_URLS)
       THEN Exit(1) /\ urls' = urls
       ELSE /\ urls' = ParseUrls(env.TEST_URLS, env.DOMAIN_STR)
            /\ IF CredentialsMissing(env.LOGIN_USERNAME, env.LOGIN_PASSWORD)
               THEN Exit(1)
               ELSE rpc' = "launch" /\ exitCode' = exitCode
    /\ UNCHANGED <<env, ri, resultsDir, files, trace, mode, browser>>

KeepEnv == UNCHANGED <<env, urls, mode>>

\* browser = await chromium.launch(...), newContext(), newPage()
LaunchOk ==
    /\ rpc = "launch"
    /\ browser' = "open"
    /\ rpc' = "login"
    /\ trace' = Append(trace, Event("launch", 0, "", 0))
    /\ UNCHANGED <<ri, resultsDir, files, exitCode>>
    /\ KeepEnv

\* chromium.launch rejects: browser is still null; catch: process.exit(1)
LaunchFail ==
    /\ rpc = "launch"
    /\ Exit(1)
    /\ UNCHANGED <<ri, resultsDir, files, trace, browser>>
    /\ KeepEnv

\* newContext() or newPage() rejects after the launch; catch: process.exit(1)
PageFail ==
    /\ rpc = "launch"
    /\ browser' = "open"
    /\ Exit(1)
    /\ trace' = Append(trace, Event("launch", 0, "", 0))
    /\ UNCHANGED <<ri, resultsDir, files>>
    /\ KeepEnv

\* await login({ page }) resolved
LoginOk ==
    /\ rpc = "login"
    /\ rpc' = "loop"
    /\ ri' = 1
    /\ trace' = Append(trace, Event("login", 0, "", 0))
    /\ UNCHANGED <<resultsDir, files, browser, exitCode>>
    /\ KeepEnv

\* login rethrows; the catch of runTests: process.exit(1)
LoginFail ==
    /\ rpc = "login"
    /\ Exit(1)
    /\ trace' = Append(trace, Event("login", 0, "", 0))
    /\ UNCHANGED <<ri, resultsDir, files, browser>>
    /\ KeepEnv

\* for (let i = 0; i < urls.length; i++) { ... await runAccessibilityTest(url, page)
StartTest ==
    /\ rpc = "loop"
    /\ ri <= Len(urls)
    /\ rpc' = "test"
    /\ trace' = Append(trace, Event("test", ri, "", 0))
    /\ UNCHANGED <<ri, resultsDir, files, browser, exitCode>>
    /\ KeepEnv

MkdirError == "EACCES: permission denied, mkdir"
WriteError == "ENOSPC: no space left on device, write"
\* where the try block of runAccessibilityTest can throw, with the message
TestFailures ==
    {[stage |-> "navigate", message |-> "page.goto: Timeout 30000ms exceeded"],
     [stage |-> "analyse", message |-> "page.evaluate: Error: WAVE failed to initialize after 100 attempts"],
     [stage |-> "writeCsv", message |-> WriteError],
     [stage |-> "writeJson", message |-> WriteError]}

FileOf(url, kind, error) == [url |-> url, kind |-> kind, error |-> error]

\* runAccessibilityTest: fs.mkdirSync(resultsDir) throws, outside the try block
TestMkdirFail ==
    /\ rpc = "test"
    /\ ~resultsDir
    /\ rpc' = "thrown"
    /\ trace' = Append(trace, Event("threw", ri, MkdirError, 0))
    /\ UNCHANGED <<ri, resultsDir, files, browser, exitCode>>
    /\ KeepEnv

\* runAccessibilityTest runs to its return statement: the csv and the json
\* file are written
TestOk ==
    /\ rpc = "test"
    /\ resultsDir' = TRUE
    /\ files' = WriteFile(WriteFile(files, generateFilename(urls[ri], ExtCsv),
                                    FileOf(urls[ri], "csv", "")),
                          generateFilename(urls[ri], ExtJson), FileOf(urls[ri], "json", ""))
    /\ rpc' = "returned"
    /\ trace' = Append(trace, Event("saved", ri, "", 0))
    /\ UNCHANGED <<ri, browser, exitCode>>
    /\ KeepEnv

\* variant of ErrorFilename that uses the json extension
ErrorFilename_Json(url) == generateFilename(url, ExtJson)

\* generateFilename(url, 'error.json')
ErrorFilename(url) == generateFilename(url, ExtErrorJson)

\* runAccessibilityTest: the try block throws; catch: the error is logged and
\* the error report is written, or the failure to write it is logged; the
\* function returns undefined
TestFail ==
    /\ rpc = "test"
    /\ \E f \in TestFailures, reportWritten \in BOOLEAN :
          LET before == IF f.stage = "writeJson"
                        THEN WriteFile(files, generateFilename(urls[ri], ExtCsv),
                                       FileOf(urls[ri], "csv", ""))
                        ELSE files
              logged == Append(trace, Event("logError", ri, f.message, 0))
          IN  IF reportWritten
              THEN /\ files' = WriteFile(before, ErrorFilename(urls[ri]),
                                         FileOf(urls[ri], "error", f.message))
                   /\ trace' = Append(logged, Event("errorReport", ri, f.message, 0))
              ELSE /\ files' = before
                   /\ trace' = Append(logged, Event("reportFailed", ri, WriteError, 0))
    /\ resultsDir' = TRUE
    /\ rpc' = "returned"
    /\ UNCHANGED <<ri, browser, exitCode>>
    /\ KeepEnv

SuccessDelay == 2000
ErrorDelay == 5000

\* the rest of the loop body: a delay when another url follows
Continue(t, ms) ==
    IF ri < Len(urls)
    THEN /\ rpc' = "delay"
         /\ trace' = Append(t, Event("delay", ri, "", ms))
         /\ ri' = ri
    ELSE /\ rpc' = "loop"
         /\ trace' = t
         /\ ri' = ri + 1

\* runAccessibilityTest returned: "completed successfully", 2 s before the next url
Completed ==
    /\ rpc = "returned"
    /\ Continue(Append(trace, Event("completed", ri, "", 0)), SuccessDelay)
    /\ UNCHANGED <<resultsDir, files, browser, exitCode>>
    /\ KeepEnv

\* runAccessibilityTest threw: the inner catch of runTests, 5 s before the next url
Caught ==
    /\ rpc = "thrown"
    /\ Continue(Append(trace, Event("caught", ri, "", 0)), ErrorDelay)
    /\ UNCHANGED <<resultsDir, files, browser, exitCode>>
    /\ KeepEnv

\* await new Promise(resolve => setTimeout(resolve, ...)) is over
DelayDone ==
    /\ rpc = "delay"
    /\ rpc' = "loop"
    /\ ri' = ri + 1
    /\ UNCHANGED <<resultsDir, files, trace, browser, exitCode>>
    /\ KeepEnv

\* the loop is over: finally { await browser.close() }, runTests returns and
\* the process ends with exit code 0
Finish ==
    /\ rpc = "loop"
    /\ ri > Len(urls)
    /\ browser' = "closed"
    /\ trace' = Append(trace, Event("close", 0, "", 0))
    /\ Exit(0)
    /\ UNCHANGED <<ri, resultsDir, files>>
    /\ KeepEnv

NextRun ==
    /\ \/ LoadConfig
       \/ LaunchOk
       \/ LaunchFail
       \/ PageFail
       \/ LoginOk
       \/ LoginFail
       \/ StartTest
       \/ TestMkdirFail
       \/ TestOk
       \/ TestFail
       \/ Completed
       \/ Caught
       \/ DelayDone
       \/ Finish
    /\ UNCHANGED <<csvVars, fnVars, enhVars, batchVars, pollVars>>

SpecRun == InitRun /\ [][NextRun]_vars

\* C13: once a browser has been launched, it is closed before the process
\* ends, on every exit path.
C13_BrowserClosed == (exitCode # -1 /\ browser # "none") => browser = "closed"

ConfigurationMissing ==
    \E name \in DOMAIN env : env[name] \in {Undefined, <<>>}

\* C14: when DOMAIN, TEST_URLS, LOGIN_USERNAME or LOGIN_PASSWORD is unset or
\* empty, the first thing run-test.ts does is exit with a non-zero code: no
\* browser is launched, no login attempted, no url analysed.
C14_ConfigMissing ==
    ConfigurationMissing =>
        /\ rpc \in {"config", "exited"}
        /\ rpc = "exited" => exitCode > 0
        /\ browser = "none"
        /\ trace = <<>>
        /\ files = NoFiles

C14_Witness ==
    /\ env.DOMAIN_STR = Domain
    /\ env.TEST_URLS = TestUrlsTwo
    /\ env.LOGIN_USERNAME = Username
    /\ env.LOGIN_PASSWORD = <<>>
    /\ rpc = "exited"
    /\ exitCode = 1

\* C15: with the configuration present and the analyzer initialized, a batch
\* of several urls ends with exit code 0.
C15_ExitZero ==
    (/\ mode = "batch"
     /\ config.urls >= 2
     /\ thrownFrom # "initialize"
     /\ exitCode # -1) => exitCode = 0

Last(t) == t[Len(t)]
SuffixErrorJson == <<".", "e", "r", "r", "o", "r", ".", "j", "s", "o", "n">>
EndsWith(s, suffix) ==
    Len(s) >= Len(suffix) /\ SubSeq(s, Len(s) - Len(suffix) + 1, Len(s)) = suffix

\* C16: an error thrown inside the try block of runAccessibilityTest is
\* logged; the error report accessibility-results-<sanitized url>.error.json
\* with the url and the message is written (when that write itself throws, the
\* failure is logged instead); nothing is returned for the url, and runTests
\* goes on: it logs the url as done, waits and starts the next url, and the
\* process ends with exit code 0 after the last url.
C16_ErrorReport ==
    /\ \A k \in 1..Len(trace) :
          trace[k].op = "logError" =>
              /\ trace[k - 1] = Event("test", trace[k].url, "", 0)
              /\ k < Len(trace)
              /\ trace[k + 1].op \in {"errorReport", "reportFailed"}
              /\ trace[k + 1].url = trace[k].url
              /\ trace[k + 1].op = "errorReport" => trace[k + 1].message = trace[k].message
              /\ k + 2 <= Len(trace) => trace[k + 2] = Event("completed", trace[k].url, "", 0)
              /\ k + 3 <= Len(trace) =>
                    IF trace[k].url < Len(urls)
                    THEN trace[k + 3].op = "delay"
                    ELSE trace[k + 3].op = "close"
              /\ k + 4 <= Len(trace) => trace[k + 4] = Event("test", trace[k].url + 1, "", 0)
    /\ (rpc = "returned" /\ Last(trace).op = "errorReport") =>
          LET url == urls[Last(trace).url]
              name == generateFilename(url, ExtErrorJson)
          IN  /\ StartsWith(name, FilePrefix)
              /\ EndsWith(name, SuffixErrorJson)
              /\ name \in DOMAIN files
              /\ files[name] = [url |-> url, kind |-> "error", error |-> Last(trace).message]
    /\ (rpc = "exited" /\ \E k \in 1..Len(trace) : trace[k].op = "logError") =>
          /\ exitCode = 0
          /\ \A i \in 1..Len(urls) : \E k \in 1..Len(trace) : trace[k] = Event("test", i, "", 0)

C16_Witness ==
    /\ Len(urls) = 3
    /\ rpc = "exited"
    /\ \E k \in 1..Len(trace) :
          /\ trace[k].op = "logError"
          /\ trace[k].url = 1
          /\ trace[k + 1].op = "errorReport"
    /\ \E k \in 1..Len(trace) : trace[k].op = "saved" /\ trace[k].url = 2
    /\ generateFilename(urls[1], ExtErrorJson) \in DOMAIN files

\* C17: a failure to write an output file is only logged: no write failure
\* makes analyzeBatch throw instead of returning its results, and none turns
\* the record of an analysed url into a failure.
C17_BestEffort ==
    /\ thrownFrom \notin {"_processUrlWithRetry", "_saveBatchSummary"}
    /\ \A u \in 1..Len(results) : IsFailure(results[u]) => results[u].error # SaveError

(***************************************************************************)
(* The urls pipeline of run-test.ts on its own, over many TEST_URLS values  *)
(***************************************************************************)
MaxPieces == 4
UrlPieces == {<<COMMA>>, <<NL>>, <<" ">>, <<"/">>, <<"a">>, HttpPrefix, HttpsPrefix}

RECURSIVE PiecesUpTo(_)
PiecesUpTo(n) ==
    IF n = 0 THEN {<<>>}
    ELSE LET shorter == PiecesUpTo(n - 1)
         IN  shorter \cup {s \o piece : s \in shorter, piece \in UrlPieces}

InitUrls ==
    /\ env \in [DOMAIN_STR : {Domain, DomainSlash},
                TEST_URLS : PiecesUpTo(MaxPieces),
                LOGIN_USERNAME : {Username},
                LOGIN_PASSWORD : {Password}]
    /\ urls = <<>>
    /\ rpc = "config"
    /\ ri = 0
    /\ resultsDir = FALSE
    /\ files = NoFiles
    /\ trace = <<>>
    /\ mode = "run-test"
    /\ browser = "none"
    /\ exitCode = -1
    /\ CsvIdle
    /\ FnIdle
    /\ EnhIdle
    /\ BatchIdle
    /\ PollIdle

NextUrls == LoadConfig /\ UNCHANGED <<csvVars, fnVars, enhVars, batchVars, pollVars>>

SpecUrls == InitUrls /\ [][NextUrls]_vars

RECURSIVE DropLeadingSpace(_)
DropLeadingSpace(s) ==
    IF s # <<>> /\ Head(s) \in {" ", "\t", "\r", NL} THEN DropLeadingSpace(Tail(s)) ELSE s

Reverse(s) == [i \in 1..Len(s) |-> s[Len(s) + 1 - i]]

\* an entry read up to a separator: kept, without the space around it, unless
\* nothing is left
EntryRead(field) ==
    LET entry == Reverse(DropLeadingSpace(Reverse(DropLeadingSpace(field))))
    IN  IF entry = <<>> THEN <<>> ELSE <<entry>>

\* the entries of a TEST_URLS value, read character by character
RECURSIVE EntriesOf(_, _)
EntriesOf(rest, field) ==
    IF rest = <<>> THEN EntryRead(field)
    ELSE IF Head(rest) = COMMA \/ Head(rest) = NL
         THEN EntryRead(field) \o EntriesOf(Tail(rest), <<>>)
         ELSE EntriesOf(Tail(rest), Append(field, Head(rest)))

\* C18: the urls are the entries of TEST_URLS between commas and newlines,
\* trimmed, the empty ones dropped, in order; an entry starting with http://
\* or https:// is used as is; any other entry becomes DOMAIN, one slash, and
\* the entry without the slash it may start with.
C18_UrlParsing ==
    rpc = "launch" =>
        LET entries == EntriesOf(env.TEST_URLS, <<>>)
        IN  /\ Len(urls) = Len(entries)
            /\ \A i \in 1..Len(entries) :
                  LET entry == entries[i]
                  IN  IF StartsWith(entry, HttpPrefix) \/ StartsWith(entry, HttpsPrefix)
                      THEN urls[i] = entry
                      ELSE /\ StartsWith(urls[i], env.DOMAIN_STR \o <<"/">>)
                           /\ SubSeq(urls[i], Len(env.DOMAIN_STR) + 2, Len(urls[i]))
                                 = IF Head(entry) = "/" THEN Tail(entry) ELSE entry

C18_Witness ==
    /\ rpc = "launch"
    /\ env.TEST_URLS = <<" ", "a", COMMA>> \o HttpsPrefix
    /\ urls = <<env.DOMAIN_STR \o <<"/", "a">>, HttpsPrefix>>

(***************************************************************************)
(* The polling initializer checkWaveAvailability, as written in wave-test.ts *)
(* ("wave-test") and in analyzer.js ("analyzer"). One action is one         *)
(* execution of the function, for one class of what it finds in the page.   *)
(***************************************************************************)
WaveTestMaxRetries == 100
WaveTestRetryDelay == 200
AnalyzerMaxWaveInitRetries == 50
AnalyzerRetryDelay == 100
MaxInitRetriesBound == 3
MaxOvershoot == 2

\* wave-test.ts fixes both constants; analyzer.js takes them from its options
\* (defaults 50 and 100)
PollConfigs ==
    {[variant |-> "wave-test", maxRetries |-> WaveTestMaxRetries,
      retryDelay |-> WaveTestRetryDelay]}
    \cup {[variant |-> "analyzer", maxRetries |-> n, retryDelay |-> AnalyzerRetryDelay] :
            n \in (1..MaxInitRetriesBound) \cup {AnalyzerMaxWaveInitRetries}}

\* checkWaveAvailability() is called once, directly
InitPoll ==
    /\ pollConfig \in PollConfigs
    /\ attempts = 0
    /\ ppc = "scheduled"
    /\ timer = 0
    /\ reschedules = 0
    /\ timersUsed = {}
    /\ lastCheck = NoCalls
    /\ everInit = FALSE
    /\ everRun = FALSE
    /\ everPresent = FALSE
    /\ outcome = "pending"
    /\ settles = 0
    /\ CsvIdle
    /\ FnIdle
    /\ EnhIdle
    /\ BatchIdle
    /\ ProcIdle
    /\ RunIdle

\* setTimeout(checkWaveAvailability, ms)
Reschedule(ms) ==
    /\ ppc' = "scheduled"
    /\ timer' = ms
    /\ reschedules' = reschedules + 1
    /\ timersUsed' = timersUsed \cup {ms}
    /\ UNCHANGED <<outcome, settles>>

\* reject(new Error(...))
Reject(message) ==
    /\ ppc' = "rejected"
    /\ outcome' = message
    /\ settles' = settles + 1
    /\ UNCHANGED <<timer, reschedules, timersUsed>>

\* variant of BudgetUsed that is off by one
BudgetUsed_Late(n, maxRetries) == n > maxRetries

\* attempts >= maxRetries
BudgetUsed(n, maxRetries) == n >= maxRetries

\* the catch blocks of wave-test.ts: if (attempts < maxRetries) retry after
\* retryDelay * 2, else reject; analyzer.js rejects at once
RetryOrReject(waveTestMessage, analyzerMessage) ==
    IF pollConfig.variant = "wave-test"
    THEN IF attempts + 1 < pollConfig.maxRetries
         THEN Reschedule(pollConfig.retryDelay * 2)
         ELSE Reject(waveTestMessage)
    ELSE Reject(analyzerMessage)

\* the host document while wave.fn is there: what the readiness checks of
\* wave-test.ts look at
NotReady == {"readyState is not complete", "no body, body.style or head",
             "the style read throws"}

\* the documents on which a check goes on to wave.fn.initialize():
\* wave-test.ts only after its readiness checks passed, analyzer.js (which
\* has no readiness check) on any document
Initializable ==
    IF pollConfig.variant = "wave-test" THEN {"ready"} ELSE {"ready"} \cup NotReady

\* window.wave or window.wave.fn is missing
CheckAbsent ==
    /\ ppc = "scheduled"
    /\ attempts' = attempts + 1
    /\ IF BudgetUsed(attempts + 1, pollConfig.maxRetries)
       THEN Reject("WAVE failed to initialize after maxRetries attempts")
       ELSE Reschedule(pollConfig.retryDelay)
    /\ lastCheck' = Checked("absent", "not called", "not called")
    /\ UNCHANGED <<pollConfig, everInit, everRun, everPresent>>

\* wave-test.ts only: the entry point is there, the document is not ready
CheckNotReady ==
    /\ ppc = "scheduled"
    /\ pollConfig.variant = "wave-test"
    /\ attempts + 1 <= pollConfig.maxRetries + MaxOvershoot
    /\ \E why \in NotReady : lastCheck' = Checked(why, "not called", "not called")
    /\ attempts' = attempts + 1
    /\ everPresent' = TRUE
    /\ Reschedule(pollConfig.retryDelay)
    /\ UNCHANGED <<pollConfig, everInit, everRun>>

\* variant of InitThrew in which the catch does not leave the check, which
\* goes on to wave.fn.run()
InitThrew_FallThrough(doc) == Checked(doc, "threw", "returned a promise")

\* initialize() threw: the catch block is entered and run() is not reached
InitThrew(doc) == Checked(doc, "threw", "not called")

\* the entry point is there (wave-test.ts: and the document ready);
\* wave.fn.initialize() throws
CheckInitThrows ==
    /\ ppc = "scheduled"
    /\ attempts' = attempts + 1
    /\ everPresent' = TRUE
    /\ \E doc \in Initializable : lastCheck' = InitThrew(doc)
    /\ everInit' = TRUE
    /\ RetryOrReject("WAVE initialization failed after retries", "WAVE initialization failed")
    /\ UNCHANGED <<pollConfig, everRun>>

\* initialize() returned; wave.fn.run() throws instead of returning a promise
CheckRunThrows ==
    /\ ppc = "scheduled"
    /\ attempts' = attempts + 1
    /\ everPresent' = TRUE
    /\ \E doc \in Initializable : lastCheck' = Checked(doc, "returned", "threw")
    /\ everInit' = TRUE
    /\ everRun' = TRUE
    /\ RetryOrReject("WAVE process failed", "WAVE initialization failed")
    /\ UNCHANGED pollConfig

\* initialize() returned and run() returned its promise
CheckRunStarted ==
    /\ ppc = "scheduled"
    /\ attempts' = attempts + 1
    /\ everPresent' = TRUE
    /\ \E doc \in Initializable :
          lastCheck' = Checked(doc, "returned", "returned a promise")
    /\ everInit' = TRUE
    /\ everRun' = TRUE
    /\ ppc' = "running"
    /\ UNCHANGED <<pollConfig, timer, reschedules, timersUsed, outcome, settles>>

\* run().then(results => resolve(...))
RunResolved ==
    /\ ppc = "running"
    /\ ppc' = "resolved"
    /\ outcome' = "resolved"
    /\ settles' = settles + 1
    /\ UNCHANGED <<pollConfig, attempts, timer, reschedules, timersUsed, lastCheck, everInit,
                   everRun, everPresent>>

\* run() rejects or the then callback throws: .catch(error => reject(...))
RunRejected ==
    /\ ppc = "running"
    /\ Reject("WAVE analysis execution failed")
    /\ UNCHANGED <<pollConfig, attempts, lastCheck, everInit, everRun, everPresent>>

NextPoll ==
    /\ \/ CheckAbsent
       \/ CheckNotReady
       \/ CheckInitThrows
       \/ CheckRunThrows
       \/ CheckRunStarted
       \/ RunResolved
       \/ RunRejected
    /\ UNCHANGED <<csvVars, fnVars, enhVars, batchVars, procVars, runVars>>

SpecPoll == InitPoll /\ [][NextPoll]_vars

\* C19: checkWaveAvailability runs at most maxRetries times: by then it has
\* started the analysis or rejected, and it is never scheduled again after
\* its maxRetries-th execution.
C19_Bounded ==
    /\ attempts <= pollConfig.maxRetries
    /\ ppc = "scheduled" => attempts < pollConfig.maxRetries

\* C20: while no check has found the entry point, neither initialize nor run
\* is called, every check before the maxRetries-th schedules the next one
\* after retryDelay, and the maxRetries-th check, no other, rejects with
\* "failed to initialize after maxRetries attempts": maxRetries - 1 timers.
C20_Unavailable ==
    ~everPresent =>
        /\ ~everInit
        /\ ~everRun
        /\ ppc \in {"scheduled", "rejected"}
        /\ timersUsed \subseteq {pollConfig.retryDelay}
        /\ ppc = "scheduled" =>
              /\ attempts < pollConfig.maxRetries
              /\ reschedules = attempts
              /\ outcome = "pending"
        /\ ppc = "rejected" =>
              /\ attempts = pollConfig.maxRetries
              /\ reschedules = pollConfig.maxRetries - 1
              /\ outcome = "WAVE failed to initialize after maxRetries attempts"
              /\ settles = 1

C20_Witness ==
    /\ pollConfig.variant = "wave-test"
    /\ ~everPresent
    /\ ppc = "rejected"
    /\ attempts = 100
    /\ reschedules = 99
    /\ timersUsed = {200}

\* C21: initialize and run are called only by a check that found the entry
\* point with the host document ready (loaded, body, body.style and head
\* there, the style read not throwing); a check that finds the entry point
\* with the document not ready calls neither, rejects nothing and leaves the
\* next check scheduled.
C21_Readiness ==
    /\ lastCheck.initialize # "not called" => lastCheck.found = "ready"
    /\ lastCheck.run # "not called" => lastCheck.found = "ready"
    /\ lastCheck.found \in NotReady =>
          /\ lastCheck.initialize = "not called"
          /\ lastCheck.run = "not called"
          /\ ppc = "scheduled"
          /\ outcome = "pending"

\* C22: after a check on which initialize threw, and until the next check:
\* while attempts remain (attempts < maxRetries) nothing is rejected and the
\* next check is scheduled after twice retryDelay, which is longer than the
\* polling delay; once the budget is used the promise is rejected.
C22_InitRetry ==
    lastCheck.initialize = "threw" =>
        /\ attempts < pollConfig.maxRetries =>
              /\ ppc = "scheduled"
              /\ outcome = "pending"
              /\ timer = 2 * pollConfig.retryDelay
              /\ timer > pollConfig.retryDelay
        /\ attempts >= pollConfig.maxRetries =>
              /\ ppc = "rejected"
              /\ outcome # "pending"

\* C29: run() is called only by a check whose own initialize() call
\* returned; once run() has returned its promise no check is pending (every
\* timer that was set has fired) and none is scheduled, so initialize and
\* run are not called again; resolve/reject is called at most once, exactly
\* once when the promise is settled and never before.
C29_SettledOnce ==
    /\ lastCheck.run # "not called" => lastCheck.initialize = "returned"
    /\ lastCheck.run = "returned a promise" =>
          /\ ppc \in {"running", "resolved", "rejected"}
          /\ reschedules + 1 = attempts
    /\ ppc = "scheduled" => reschedules = attempts
    /\ ppc \in {"scheduled", "running"} => settles = 0 /\ outcome = "pending"
    /\ ppc \in {"resolved", "rejected"} => settles = 1 /\ outcome # "pending"
    /\ settles <= 1

C29_Witness ==
    /\ pollConfig.variant = "wave-test"
    /\ 2 * WaveTestRetryDelay \in timersUsed
    /\ lastCheck.run = "returned a promise"
    /\ ppc = "resolved"
    /\ settles = 1
    /\ attempts >= 3

(***************************************************************************)
(* Properties of the DOM lookups of the enhancer                           *)
(***************************************************************************)
Markers(domInfo) == SelectSeq(domInfo, LAMBDA info : info.kind = "error")
Positions(xp, kinds) == {i \in 1..Len(xp) : Document(xp[i]).kind \in kinds}

\* C23: whatever lookups throw or find no node, the enhancement completes:
\* every retained category is recounted, every rule of it has looked up each
\* of its distinct XPaths once, its domInfo holds one error marker
\* {error: message} per XPath whose lookup threw and one entry per XPath
\* whose lookup did not return null.
C23_LookupErrors ==
    Enhanced =>
        /\ Retained = DOMAIN raw.categories \cap {"error", "contrast"}
        /\ \A c \in Retained :
              /\ RulesOf(c) = DOMAIN raw.categories[c].items
              /\ enhanced.categories[c].count = CountsIn(enhanced.categories[c].items)
              /\ \A r \in RulesOf(c) :
                    LET u == EnhItem(c, r).xpaths
                        d == EnhItem(c, r).domInfo
                    IN  /\ Range(u) = Range(RawItem(c, r).xpaths)
                        /\ \A x \in Range(u) : Cardinality(LookupsFor(c, r, x)) = 1
                        /\ Len(Markers(d)) = Cardinality(Positions(u, {"throws"}))
                        /\ \A i \in 1..Len(Markers(d)) :
                              \E x \in Range(u) :
                                  /\ Document(x).kind = "throws"
                                  /\ Markers(d)[i] = [kind |-> "error",
                                                      error |-> Document(x).message]
                        /\ Len(d) = Cardinality(Positions(u, {"throws", "node"}))

C23_Witness ==
    /\ stage = "reported"
    /\ Retained = {"error", "contrast"}
    /\ RulesOf("error") = ErrorRules
    /\ RawItem("error", "alt_missing").xpaths = <<XpBad, XpNone, XpElem>>
    /\ Len(EnhItem("error", "alt_missing").domInfo) = 2
    /\ EnhItem("error", "alt_missing").domInfo[1].kind = "error"
    /\ EnhItem("error", "label_missing").xpaths = <<XpElem>>
    /\ Len(EnhItem("error", "label_missing").domInfo) = 1
    /\ enhanced.categories["error"].count = 4
    /\ Len(csvRows) = 4 + CategoryTotal("contrast")

\* the Element field the row of XPath x is to carry: tag, #id and .classes
\* of the element x resolves to, the XPath itself when the lookup of x found
\* no node or threw
ElementOf(x) ==
    LET element == Document(x)
    IN  IF element.kind = "node"
        THEN element.tagName
             \o (IF element.id # "" THEN "#" \o element.id ELSE "")
             \o (IF element.className # <<>>
                 THEN "." \o JoinStr(element.className, ".") ELSE "")
        ELSE x

\* C24: the Element field (5th) of every CSV row describes the element of
\* the row's own XPath (6th field) when the lookup of that XPath succeeded,
\* and is the XPath string itself when the lookup found no node or recorded
\* an error.
C24_ElementAligned ==
    stage = "reported" =>
        \A i \in 1..Len(csvRows) : csvRows[i][5] = ElementOf(csvRows[i][6])

InitSeq == InitBatch \/ InitRun
NextSeq == NextBatch \/ NextRun
SpecSeq == InitSeq /\ [][NextSeq]_vars

\* analyzeBatch: while url cur is worked on the results of the urls before
\* it are recorded and no later url has been tried; past the first url the
\* loop is re-entered only from the delay between urls (when one is
\* configured), and that delay is waited only while another url follows
BatchSequential ==
    /\ \A u \in 1..config.urls : tries[u] > 0 => u <= cur
    /\ bpc \in {"while", "analyzing", "saving", "retryDelay"} => Len(results) = cur - 1
    /\ (bpc = "for" /\ 1 < cur /\ cur <= config.urls /\ config.delay > 0) =>
          prev = "urlDelay"
    /\ (bpc = "analyzing" /\ 1 < cur /\ tries[cur] = 1 /\ config.delay > 0) =>
          prev = "urlDelay"
    /\ bpc = "urlDelay" => cur < config.urls /\ Len(results) = cur

\* runTests: the test of url i + 1 starts right after the delay that follows
\* the end (completed or caught) of the test of url i; the first test starts
\* after the login; a delay follows the end of every url but the last
RunSequential ==
    \A p \in 1..Len(trace) :
        /\ (trace[p].op = "test" /\ trace[p].url = 1) =>
              \A q \in 1..(p - 1) : trace[q].op \in {"launch", "login"}
        /\ (trace[p].op = "test" /\ trace[p].url > 1) =>
              /\ p > 2
              /\ trace[p - 1].op = "delay"
              /\ trace[p - 1].url = trace[p].url - 1
              /\ trace[p - 2].op \in {"completed", "caught"}
              /\ trace[p - 2].url = trace[p].url - 1
        /\ trace[p].op = "delay" =>
              /\ trace[p].url < Len(urls)
              /\ trace[p - 1].op \in {"completed", "caught"}
              /\ trace[p - 1].url = trace[p].url
        /\ (trace[p].op \in {"completed", "caught"} /\ trace[p].url < Len(urls)) =>
              /\ p < Len(trace)
              /\ trace[p + 1].op = "delay"
        /\ (trace[p].op \in {"completed", "caught"} /\ trace[p].url = Len(urls)) =>
              (p < Len(trace) => trace[p + 1].op = "close")

\* C26: the urls are processed one at a time, in both loops: the first
\* attempt on url i + 1 starts only after the result of url i is recorded
\* and the delay between urls is over, no two analyses overlap, and the
\* delay between urls follows every url but the last.
C26_Sequential ==
    /\ BatchSequential
    /\ RunSequential

C26_Witness ==
    /\ config.urls = 3
    /\ config.delay = 1000
    /\ bpc = "analyzing"
    /\ cur = 3
    /\ tries[3] = 1
    /\ fails[2] >= 1
    /\ Len(results) = 2
    /\ prev = "urlDelay"

\* the test of url i failed: runAccessibilityTest logged its error or threw
FailedBefore(p) ==
    \E q \in 1..(p - 1) :
        /\ trace[q].url = trace[p].url
        /\ trace[q].op \in {"logError", "threw"}

\* C27: in runTests the delay before the next url is the failure delay
\* (5 s) when the test of the url just processed failed, and the normal
\* delay (2 s) when it did not.
C27_FailureDelay ==
    \A p \in 1..Len(trace) :
        trace[p].op = "delay" =>
            trace[p].ms = IF FailedBefore(p) THEN ErrorDelay ELSE SuccessDelay

\* C28: whatever maxRetries >= 0 the batch is run with, every entry of
\* results is a defined record of its url with a boolean success, and
\* _createBatchSummary does not throw.
C28_DefinedResults ==
    /\ \A u \in 1..Len(results) :
          /\ IsDefined(results[u])
          /\ results[u].url = u
          /\ results[u].success \in BOOLEAN
    /\ thrownFrom # "_createBatchSummary"

\* C30: two distinct urls of a run have distinct report filenames, so the
\* csv and the json report saved for a url are still the reports of that
\* url whatever was written for the other urls afterwards.
C30_DistinctFilenames ==
    /\ \A i, j \in 1..Len(urls) :
          urls[i] # urls[j] =>
              generateFilename(urls[i], ExtCsv) # generateFilename(urls[j], ExtCsv)
    /\ \A p \in 1..Len(trace) :
          trace[p].op = "saved" =>
              LET url == urls[trace[p].url]
              IN  /\ files[generateFilename(url, ExtCsv)] = FileOf(url, "csv", "")
                  /\ files[generateFilename(url, ExtJson)] = FileOf(url, "json", "")

====
